---- MODULE Spec2Model ----
(***************************************************************************)
(* A model of research_agent_1.py: the sliding-window rate limiter, the    *)
(* language-model client and its conversation history, the web scraper,    *)
(* the deduplicating search and the ResearchAgent.run pipeline.            *)
(*                                                                         *)
(* Each class is an object whose public methods are callable in any order; *)
(* one specification per object keeps the state spaces apart:              *)
(*   SpecLimiter  AsyncRateLimiter.acquire() under concurrent callers      *)
(*   SpecLimiterFair  the same, with time that never stops and fair        *)
(*                scheduling of the callers                                *)
(*   SpecClient   LLMClient: add_to_context, clear_context,                *)
(*                set_system_message, chat                                 *)
(*   SpecScraper  WebScraper.scrape_website                                *)
(*   SpecSearch   Search.search                                            *)
(*   SpecAgent    SearchQueryGenerator.extract and ResearchAgent.run       *)
(*   SpecChecker  RelevanceChecker.is_relevant                             *)
(***************************************************************************)
EXTENDS Integers, Sequences, FiniteSets, TLC

\* ------------------------------------------------------------------ bounds
\* The clock (time.monotonic(), in whole seconds) runs from 0 to MaxTime.
MaxTime == 6
\* Constructor arguments of AsyncRateLimiter are drawn from 1..MaxCallsArg
\* and 1..MaxPeriodArg.
MaxCallsArg == 2
MaxPeriodArg == 3
\* The number of acquire() calls started over one behaviour.
MaxAcquires == 4

\* LLMClient keeps max_context_length = 30 messages and limits itself to 30
\* requests per 60 seconds; the model scales the three numbers down.
max_context_length == 2
RATE_MAX_CALLS == 1
RATE_PERIOD == 2
\* The number of chat() calls started over one behaviour.
MaxChats == 2

\* Search keeps at most MAX_TOTAL_UNIQUE_RESULTS = 50 results; scaled down.
MAX_TOTAL_UNIQUE_RESULTS == 2
\* Length of list_of_queries, and of one query's result list.
MaxQueries == 3
MaxPerQuery == 2

\* Number of aggregated results one run() works through.
MaxRunResults == 2
\* The number of is_relevant() calls started over one behaviour.
MaxChecks == 3

\* The tasks that may call acquire() concurrently.
Callers == {"t1", "t2", "t3"}

VARIABLES
    \* AsyncRateLimiter
    max_calls,      \* self.max_calls
    period,         \* self.period
    calls,          \* self.calls: sequence of timestamps
    lock,           \* self.lock: FIFO of the tasks at "async with self.lock";
                    \* the head holds the lock
    clock,          \* time.monotonic()
    apc,            \* each task's position in acquire()
    wakeAt,         \* when each task's asyncio.sleep() is due
    recorded,       \* every timestamp acquire() ever appended, in order
    started,        \* number of acquire() calls started
    \* LLMClient
    conversation_history,   \* self.conversation_history: sequence of messages
    cpc,            \* each task's position in chat()
    cargs,          \* the arguments of each task's last chat() call
    sysMsg,         \* content of the system message set by
                    \* set_system_message since the last clear_context,
                    \* or "none"
    messages,       \* chat(): the list "messages" of the backend request in
                    \* progress, <<>> when there is none
    requests,       \* number of backend requests chat() has made
    chat_ret,       \* what each task's last chat() returned or raised
    \* WebScraper
    s_url,          \* self.url
    s_title,        \* self.title
    s_content,      \* self.content
    s_webContent,   \* self.webContent: "unset" until an error path sets it
    s_pc,           \* position in scrape_website()
    s_browser,      \* the browser of the last call: "none", "open",
                    \* "closed" (browser.close() ran, or the playwright
                    \* context that launched it was left)
    s_nav,          \* outcome of the last page.goto(): "none", "ok", "failed"
    s_ret,          \* what the last scrape_website() call returned
    \* Search.search
    q_list,         \* list_of_queries
    q_idx,          \* index of the query the for loop is at
    q_items,        \* rest of results_for_current_query
    unique_results, \* keys of the dict unique_results, in insertion order
    q_pc,           \* position in search()
    q_ret,          \* what the last search() call returned
    q_issued,       \* number of ddgs.text() calls made by this search()
    q_firstSeen,    \* hrefs the backend returned to this search(), each
                    \* once, in the order they were first returned
    q_fails,        \* number of ddgs.text() calls of this search() that failed
    q_atFail,       \* unique_results when ddgs.text() last failed
    q_dups,         \* number of result items this search() skipped because
                    \* their href was already in unique_results
    \* SearchQueryGenerator, RelevanceChecker, ResearchAgent
    e_pc,           \* position in extract()
    e_result,       \* extract(): the local "result"
    search_queries, \* SearchQueryGenerator.search_queries
    e_ret,          \* what the last extract() call returned or raised
    c_pc,           \* position in is_relevant()
    c_answer,       \* is_relevant(): the local "answer"
    c_ret,          \* what the last is_relevant() call returned or raised
    c_args,         \* (query, content) of the last is_relevant() call
    c_prev,         \* arguments and outcome of the is_relevant() call before
                    \* the last one
    c_calls,        \* number of is_relevant() calls started
    r_pc,           \* stage of run(): "idle" when none is in progress
    r_stages,       \* the stages the last run() has been in, in order
    r_env,          \* what the backends hold in store for this run()
    r_ret           \* what the last run() call returned or raised

limiterVars == <<max_calls, period, calls, lock, clock, apc, wakeAt,
                 recorded, started>>

clientVars == <<conversation_history, cpc, cargs, sysMsg, messages, requests,
                chat_ret>>

scraperVars == <<s_url, s_title, s_content, s_webContent, s_pc, s_browser,
                 s_nav, s_ret>>

searchVars == <<q_list, q_idx, q_items, unique_results, q_pc, q_ret, q_issued,
                q_firstSeen, q_fails, q_atFail, q_dups>>

agentVars == <<e_pc, e_result, search_queries, e_ret, c_pc, c_answer, c_ret,
               c_args, c_prev, c_calls, r_pc, r_stages, r_env, r_ret>>

vars == <<limiterVars, clientVars, scraperVars, searchVars, agentVars>>

\* ------------------------------------------------------------ helpers
SeqToSet(s) == {s[i] : i \in 1..Len(s)}

Take(s, n) == SubSeq(s, 1, IF n < Len(s) THEN n ELSE Len(s))

\* ============================================================ AsyncRateLimiter

\* [t for t in self.calls if now - t < self.period]
Purge(cs, t_now, per) ==
    LET Fresh(t) == t_now - t < per IN SelectSeq(cs, Fresh)

\* A sleep that does not wait for the oldest call to leave the window.
SleepTimeShort(per, t_now, oldest) == 1

\* sleep_time = self.period - (now - self.calls[0]) + 1
SleepTime(per, t_now, oldest) == per - (t_now - oldest) + 1

\* AsyncRateLimiter(max_calls=mc, period_seconds=ps)
LimiterNew(mc, ps) ==
    /\ max_calls = mc
    /\ period = ps
    /\ calls = <<>>
    /\ lock = <<>>
    /\ clock = 0
    /\ apc = [t \in Callers |-> "idle"]
    /\ wakeAt = [t \in Callers |-> 0]
    /\ recorded = <<>>
    /\ started = 0

\* Time passes.
Tick ==
    /\ clock < MaxTime
    /\ clock' = clock + 1
    /\ UNCHANGED <<max_calls, period, calls, lock, apc, wakeAt,
                   recorded, started>>
    /\ UNCHANGED <<clientVars, scraperVars, searchVars, agentVars>>

\* One second earlier on the clock, not below 0.
Earlier(ts) == [i \in DOMAIN ts |-> IF ts[i] > 0 THEN ts[i] - 1 ELSE 0]

\* Time passes with the clock at MaxTime: the origin of the clock moves one
\* second forward instead, and every stored time reads one second earlier.
\* acquire() uses differences of times only, and a timestamp held at 0 is
\* MaxTime >= period seconds old: purged as it would be.
TickRebase ==
    /\ clock = MaxTime
    /\ calls' = Earlier(calls)
    /\ recorded' = Earlier(recorded)
    /\ wakeAt' = Earlier(wakeAt)
    /\ UNCHANGED <<max_calls, period, lock, clock, apc, started>>
    /\ UNCHANGED <<clientVars, scraperVars, searchVars, agentVars>>

\* A task calls acquire() and queues on the lock (asyncio.Lock is FIFO).
AcquireEnter(t) ==
    /\ apc[t] = "idle"
    /\ started < MaxAcquires
    /\ started' = started + 1
    /\ lock' = Append(lock, t)
    /\ apc' = [apc EXCEPT ![t] = "lock"]
    /\ UNCHANGED <<max_calls, period, calls, clock, wakeAt, recorded>>

\* acquire() called directly.
AcquireCall(t) ==
    /\ AcquireEnter(t)
    /\ UNCHANGED <<clientVars, scraperVars, searchVars, agentVars>>

\* A lock every waiting task may take at once.
HoldsLockAny(l, t) == TRUE

\* "async with self.lock" lets one task in: the first of the queue.
HoldsLock(l, t) == l # <<>> /\ Head(l) = t

\* The task gets the lock: reads the clock, purges the window and decides
\* whether it has to sleep.
AcquireCheck(t) ==
    /\ apc[t] = "lock"
    /\ HoldsLock(lock, t)
    /\ LET purged == Purge(calls, clock, period) IN
        /\ calls' = purged
        /\ IF Len(purged) >= max_calls
           THEN /\ wakeAt' = [wakeAt EXCEPT
                                ![t] = clock + SleepTime(period, clock, purged[1])]
                /\ apc' = [apc EXCEPT ![t] = "sleep"]
           ELSE /\ apc' = [apc EXCEPT ![t] = "append"]
                /\ UNCHANGED wakeAt
    /\ UNCHANGED <<max_calls, period, lock, clock, recorded, started>>
    /\ UNCHANGED <<clientVars, scraperVars, searchVars, agentVars>>

\* asyncio.sleep(sleep_time) is over: read the clock and purge again.
AcquireWake(t) ==
    /\ apc[t] = "sleep"
    /\ clock >= wakeAt[t]
    /\ calls' = Purge(calls, clock, period)
    /\ apc' = [apc EXCEPT ![t] = "append"]
    /\ UNCHANGED <<max_calls, period, lock, clock, wakeAt, recorded, started>>
    /\ UNCHANGED <<clientVars, scraperVars, searchVars, agentVars>>

\* A lock that stays with its holder.
NotReleased(l, t) == l

\* Leaving "async with self.lock": the holder goes and the next task of the
\* queue holds the lock.
Released(l, t) == LET Others(u) == u # t IN SelectSeq(l, Others)

\* self.calls.append(time.monotonic()); the lock is released on the way out.
AcquireRecord(t) ==
    /\ apc[t] = "append"
    /\ calls' = Append(calls, clock)
    /\ recorded' = Append(recorded, clock)
    /\ lock' = Released(lock, t)
    /\ apc' = [apc EXCEPT ![t] = "idle"]
    /\ UNCHANGED <<max_calls, period, clock, wakeAt, started>>
    /\ UNCHANGED <<clientVars, scraperVars, searchVars, agentVars>>

LimiterNext ==
    \/ Tick
    \/ \E t \in Callers : AcquireCall(t)
    \/ \E t \in Callers : AcquireCheck(t)
    \/ \E t \in Callers : AcquireWake(t)
    \/ \E t \in Callers : AcquireRecord(t)

\* acquire() with time that never stops.
LimiterFairNext ==
    \/ Tick
    \/ TickRebase
    \/ \E t \in Callers : AcquireCall(t)
    \/ \E t \in Callers : AcquireCheck(t)
    \/ \E t \in Callers : AcquireWake(t)
    \/ \E t \in Callers : AcquireRecord(t)

\* ============================================================ LLMClient
Roles == {"system", "user", "assistant"}
\* Message texts: prompts, responses and system messages.
Contents == {"a", "b"}
\* The tasks that may call chat().
ChatTasks == {"t1"}

Msg(r, c) == [role |-> r, content |-> c]

NoArgs == [prompt |-> "a", use_context |-> FALSE, add_to_history |-> FALSE]

\* self.conversation_history = []; no chat() in progress
ClientNew ==
    /\ conversation_history = <<>>
    /\ cpc = [t \in Callers |-> "idle"]
    /\ cargs = [t \in Callers |-> NoArgs]
    /\ sysMsg = "none"
    /\ messages = <<>>
    /\ requests = 0
    /\ chat_ret = [t \in Callers |-> [kind |-> "none"]]

\* h[-n:]
LastN(h, n) == IF n = 0 \/ n >= Len(h) THEN h ELSE SubSeq(h, Len(h) - n + 1, Len(h))

\* add_to_context: append, then keep the most recent max_context_length
AddToContextOf(h, r, c) ==
    LET h1 == Append(h, Msg(r, c)) IN
    IF Len(h1) > max_context_length THEN LastN(h1, max_context_length) ELSE h1

\* set_system_message: drop every system message, insert the new one first
SetSystemMessageOf(h, c) ==
    LET NotSystem(m) == m.role # "system" IN
    <<Msg("system", c)>> \o SelectSeq(h, NotSystem)

\* A request that leaves the history out.
MessagesOfNoContext(h, prompt, use_context) == <<Msg("user", prompt)>>

\* chat(): the list of messages sent to the backend
MessagesOf(h, prompt, use_context) ==
    IF use_context /\ h # <<>> THEN Append(h, Msg("user", prompt))
    ELSE <<Msg("user", prompt)>>

\* The backend call of chat() is synchronous: while it is in progress the
\* event loop is blocked and no other method of the client runs.
Blocked == \E t \in Callers : cpc[t] = "request"

AddToContext(r, c) ==
    /\ ~Blocked
    /\ conversation_history' = AddToContextOf(conversation_history, r, c)
    /\ UNCHANGED <<cpc, cargs, sysMsg, messages, requests, chat_ret>>
    /\ UNCHANGED <<limiterVars, scraperVars, searchVars, agentVars>>

ClearContext ==
    /\ ~Blocked
    /\ conversation_history' = <<>>
    /\ sysMsg' = "none"
    /\ UNCHANGED <<cpc, cargs, messages, requests, chat_ret>>
    /\ UNCHANGED <<limiterVars, scraperVars, searchVars, agentVars>>

SetSystemMessage(c) ==
    /\ ~Blocked
    /\ conversation_history' = SetSystemMessageOf(conversation_history, c)
    /\ sysMsg' = c
    /\ UNCHANGED <<cpc, cargs, messages, requests, chat_ret>>
    /\ UNCHANGED <<limiterVars, scraperVars, searchVars, agentVars>>

\* chat(prompt, use_context, add_to_history) up to its first suspension:
\* await self.rate_limiter.acquire()
ChatCall(t, prompt, use_context, add_to_history) ==
    /\ cpc[t] = "idle"
    /\ started < MaxChats
    /\ AcquireEnter(t)
    /\ cpc' = [cpc EXCEPT ![t] = "acquire"]
    /\ cargs' = [cargs EXCEPT ![t] = [prompt |-> prompt,
                                      use_context |-> use_context,
                                      add_to_history |-> add_to_history]]
    /\ chat_ret' = [chat_ret EXCEPT ![t] = [kind |-> "none"]]
    /\ UNCHANGED <<conversation_history, sysMsg, messages, requests>>
    /\ UNCHANGED <<scraperVars, searchVars, agentVars>>

\* A call of acquire() that is not waited for.
AcquireNotAwaited(pc) == TRUE

\* "await self.rate_limiter.acquire()" is over once acquire() has returned.
AcquireReturned(pc) == pc = "idle"

\* acquire() has returned: chat() builds "messages" and hands them to the
\* backend.  From here to its end chat() runs without suspension.
ChatRequest(t) ==
    /\ cpc[t] = "acquire"
    /\ AcquireReturned(apc[t])
    /\ cpc' = [cpc EXCEPT ![t] = "request"]
    /\ messages' = MessagesOf(conversation_history, cargs[t].prompt,
                              cargs[t].use_context)
    /\ requests' = requests + 1
    /\ UNCHANGED <<conversation_history, cargs, sysMsg, chat_ret>>
    /\ UNCHANGED <<limiterVars, scraperVars, searchVars, agentVars>>

\* A chat() that records the prompt before it knows the outcome.
HistoryAfterEager(h, args, ok, response) ==
    IF args.add_to_history
    THEN (IF ok THEN AddToContextOf(AddToContextOf(h, "user", args.prompt),
                                    "assistant", response)
          ELSE AddToContextOf(h, "user", args.prompt))
    ELSE h

\* The history chat() leaves: the prompt and the response are added when the
\* request succeeded and add_to_history is set.
HistoryAfter(h, args, ok, response) ==
    IF ok /\ args.add_to_history
    THEN AddToContextOf(AddToContextOf(h, "user", args.prompt),
                        "assistant", response)
    ELSE h

\* The backend answers with a text (response, already stripped) and chat()
\* returns it, or the request fails and chat() re-raises.
ChatResponse(t, ok, response) ==
    /\ cpc[t] = "request"
    /\ cpc' = [cpc EXCEPT ![t] = "idle"]
    /\ messages' = <<>>
    /\ conversation_history' =
            HistoryAfter(conversation_history, cargs[t], ok, response)
    /\ chat_ret' = [chat_ret EXCEPT
                        ![t] = IF ok THEN [kind |-> "returned", value |-> response]
                               ELSE [kind |-> "raised"]]
    /\ UNCHANGED <<cargs, sysMsg, requests>>
    /\ UNCHANGED <<limiterVars, scraperVars, searchVars, agentVars>>

ClientNext ==
    \/ Tick
    \/ \E r \in Roles, c \in Contents : AddToContext(r, c)
    \/ ClearContext
    \/ \E c \in Contents : SetSystemMessage(c)
    \/ \E t \in ChatTasks, p \in Contents, u \in BOOLEAN, a \in BOOLEAN :
          ChatCall(t, p, u, a)
    \/ \E t \in ChatTasks : AcquireCheck(t)
    \/ \E t \in ChatTasks : AcquireWake(t)
    \/ \E t \in ChatTasks : AcquireRecord(t)
    \/ \E t \in ChatTasks : ChatRequest(t)
    \/ \E t \in ChatTasks, ok \in BOOLEAN, r \in Contents : ChatResponse(t, ok, r)

\* ============================================================ WebScraper
Urls == {"u1", "u2", "u3"}
PageTitles == {"T1", "T2"}
\* Visible text of a page body; "" is a body without text.
BodyTexts == {"", "A", "B"}
\* type(e).__name__ of what page.goto() raises
NavErrors == {"TimeoutError", "Error"}

\* A title is the page's own title or f"Scraping Error: {name}".
PageTitle(t) == [error |-> FALSE, text |-> t]
ErrorTitle(name) == [error |-> TRUE, text |-> name]

\* What a navigation produces: a failure, or a page with a title and either
\* a body (with its text) or no body element.
NavOutcomes ==
    [kind : {"failed"}, error : NavErrors]
    \cup [kind : {"page"}, title : PageTitles, has_body : {TRUE}, text : BodyTexts]
    \cup [kind : {"page"}, title : PageTitles, has_body : {FALSE}, text : {""}]

NoReturn == [kind |-> "none"]

\* WebScraper()
ScraperNew ==
    /\ s_url = ""
    /\ s_title = PageTitle("")
    /\ s_content = ""
    /\ s_webContent = "unset"
    /\ s_pc = "idle"
    /\ s_browser = "none"
    /\ s_nav = "none"
    /\ s_ret = NoReturn

\* scrape_website(url): self.url = url; the browser is launched
ScrapeCall(url) ==
    /\ s_pc = "idle"
    /\ s_url' = url
    /\ s_browser' = "open"
    /\ s_pc' = "launched"
    /\ s_nav' = "none"
    /\ s_ret' = NoReturn
    /\ UNCHANGED <<s_title, s_content, s_webContent>>
    /\ UNCHANGED <<limiterVars, clientVars, searchVars, agentVars>>

\* A context whose exit leaves its browsers running.
PlaywrightExitLeaves(b) == b

\* Leaving "async with async_playwright() as p", by return or by exception:
\* playwright is stopped, and a browser it launched that is still open
\* ends with it.
PlaywrightExit(b) == IF b = "open" THEN "closed" ELSE b

\* page = await browser.new_page(): outside the try block, so a failure
\* leaves scrape_website as an exception and browser.close() does not run;
\* the exception passes through the exit of the playwright context.
ScrapeNewPage(ok) ==
    /\ s_pc = "launched"
    /\ IF ok
       THEN /\ s_pc' = "page"
            /\ UNCHANGED <<s_ret, s_browser>>
       ELSE /\ s_pc' = "idle"
            /\ s_ret' = [kind |-> "raised"]
            /\ s_browser' = PlaywrightExit(s_browser)
    /\ UNCHANGED <<s_url, s_title, s_content, s_webContent, s_nav>>
    /\ UNCHANGED <<limiterVars, clientVars, searchVars, agentVars>>

\* except Exception as e: self.title = ...; self.webContent = ""
AfterNavError(content, webContent, name) ==
    [title |-> ErrorTitle(name), content |-> content, webContent |-> ""]

\* The try block when nothing raises: title and body text of the page
AfterPage(webContent, page) ==
    [title |-> PageTitle(page.title),
     content |-> IF page.has_body THEN page.text ELSE "",
     webContent |-> webContent]

\* try: page.goto ... / except / finally: browser.close(); return
ScrapeGoto(out) ==
    /\ s_pc = "page"
    /\ LET after == IF out.kind = "failed"
                    THEN AfterNavError(s_content, s_webContent, out.error)
                    ELSE AfterPage(s_webContent, out) IN
        /\ s_title' = after.title
        /\ s_content' = after.content
        /\ s_webContent' = after.webContent
        /\ s_ret' = [kind |-> "returned", content |-> after.content,
                     title |-> after.title]
    /\ s_nav' = IF out.kind = "failed" THEN "failed" ELSE "ok"
    /\ s_browser' = PlaywrightExit("closed")
    /\ s_pc' = "idle"
    /\ UNCHANGED s_url
    /\ UNCHANGED <<limiterVars, clientVars, searchVars, agentVars>>

ScraperNext ==
    \/ \E u \in Urls : ScrapeCall(u)
    \/ \E ok \in BOOLEAN : ScrapeNewPage(ok)
    \/ \E out \in NavOutcomes : ScrapeGoto(out)

\* ============================================================ Search
Queries == {"qa", "qb"}
\* The href of a result item; "" stands for an item without one
\* (result_item.get("href") is None or empty).
Hrefs == Urls \cup {""}

\* Sequences over S of length at most n.
SeqsUpTo(S, n) == UNION {[1..k -> S] : k \in 0..n}

\* What ddgs.text(query) produces: an exception, or a list of result items.
BackendOutcomes ==
    {[ok |-> FALSE, items |-> <<>>]}
    \cup {[ok |-> TRUE, items |-> r] : r \in SeqsUpTo(Hrefs, MaxPerQuery)}

\* Search(); no search() in progress
SearchNew ==
    /\ q_list = <<>>
    /\ q_idx = 0
    /\ q_items = <<>>
    /\ unique_results = <<>>
    /\ q_pc = "idle"
    /\ q_ret = NoReturn
    /\ q_issued = 0
    /\ q_firstSeen = <<>>
    /\ q_fails = 0
    /\ q_atFail = <<>>
    /\ q_dups = 0

\* A cap test that lets one more in.
CapReachedLate(n) == n > MAX_TOTAL_UNIQUE_RESULTS

\* len(unique_results) >= self.MAX_TOTAL_UNIQUE_RESULTS
CapReached(n) == n >= MAX_TOTAL_UNIQUE_RESULTS

\* An insertion that does not look at what is already there.
InsertAlways(u, href) == IF href # "" THEN Append(u, href) ELSE u

\* if href and href not in unique_results: unique_results[href] = {...}
Insert(u, href) ==
    IF href # "" /\ href \notin SeqToSet(u) THEN Append(u, href) ELSE u

\* An except branch that gives up on the remaining queries.
AfterErrorAbort(i, n) == n + 1

\* except Exception: the error is printed and the for loop goes on
AfterError(i, n) == i + 1

\* The hrefs of f followed by those of items, each kept once, in order;
\* items without an href are left out.
RECURSIVE FirstSeen(_, _)
FirstSeen(f, items) ==
    IF items = <<>> THEN f
    ELSE FirstSeen(IF Head(items) = "" \/ \E k \in 1..Len(f) : f[k] = Head(items)
                   THEN f ELSE f \o <<Head(items)>>,
                   Tail(items))

\* search(list_of_queries): unique_results = {}
SearchCall(queries) ==
    /\ q_pc = "idle"
    /\ q_list' = queries
    /\ q_idx' = 1
    /\ q_items' = <<>>
    /\ unique_results' = <<>>
    /\ q_pc' = "loop"
    /\ q_ret' = NoReturn
    /\ q_issued' = 0
    /\ q_firstSeen' = <<>>
    /\ q_fails' = 0
    /\ q_atFail' = <<>>
    /\ q_dups' = 0
    /\ UNCHANGED <<limiterVars, clientVars, scraperVars, agentVars>>

\* The for loop takes the next query, the cap is not reached, and
\* ddgs.text(query) answers or raises.
SearchQuery(out) ==
    /\ q_pc = "loop"
    /\ q_idx <= Len(q_list)
    /\ ~CapReached(Len(unique_results))
    /\ q_issued' = q_issued + 1
    /\ IF out.ok
       THEN /\ q_items' = out.items
            /\ q_firstSeen' = FirstSeen(q_firstSeen, out.items)
            /\ q_pc' = "items"
            /\ UNCHANGED <<q_idx, q_fails, q_atFail>>
       ELSE /\ q_idx' = AfterError(q_idx, Len(q_list))
            /\ q_fails' = q_fails + 1
            /\ q_atFail' = unique_results
            /\ UNCHANGED <<q_items, q_firstSeen, q_pc>>
    /\ UNCHANGED <<q_list, unique_results, q_ret, q_dups>>
    /\ UNCHANGED <<limiterVars, clientVars, scraperVars, agentVars>>

\* One turn of "for result_item in results_for_current_query", or its end;
\* after the inner loop (ended or broken) comes time.sleep(1) and the next
\* query.
SearchItem ==
    /\ q_pc = "items"
    /\ IF q_items = <<>>
       THEN /\ q_idx' = q_idx + 1
            /\ q_pc' = "loop"
            /\ UNCHANGED <<q_items, unique_results, q_dups>>
       ELSE LET u == Insert(unique_results, Head(q_items)) IN
            /\ unique_results' = u
            /\ q_dups' = IF Head(q_items) \in SeqToSet(unique_results)
                         THEN q_dups + 1 ELSE q_dups
            /\ IF u # unique_results /\ CapReached(Len(u))
               THEN /\ q_items' = <<>>
                    /\ q_idx' = q_idx + 1
                    /\ q_pc' = "loop"
               ELSE /\ q_items' = Tail(q_items)
                    /\ UNCHANGED <<q_idx, q_pc>>
    /\ UNCHANGED <<q_list, q_ret, q_issued, q_firstSeen, q_fails, q_atFail>>
    /\ UNCHANGED <<limiterVars, clientVars, scraperVars, agentVars>>

\* The for loop is over, by exhaustion or by the break at its head:
\* return final_unique_list[:self.MAX_TOTAL_UNIQUE_RESULTS]
SearchReturn ==
    /\ q_pc = "loop"
    /\ q_idx > Len(q_list) \/ CapReached(Len(unique_results))
    /\ q_ret' = [kind |-> "returned",
                 list |-> Take(unique_results, MAX_TOTAL_UNIQUE_RESULTS)]
    /\ q_pc' = "idle"
    /\ UNCHANGED <<q_list, q_idx, q_items, unique_results, q_issued,
                   q_firstSeen, q_fails, q_atFail, q_dups>>
    /\ UNCHANGED <<limiterVars, clientVars, scraperVars, agentVars>>

SearchNext ==
    \/ \E qs \in SeqsUpTo(Queries, MaxQueries) : SearchCall(qs)
    \/ \E out \in BackendOutcomes : SearchQuery(out)
    \/ SearchItem
    \/ SearchReturn

\* ============================================================ ResearchAgent
\* A text is a sequence of lines and a line a sequence of comma-separated
\* fields; the field "" is one of whitespace only, so <<"">> is a blank line.
Fields == {"", "k1", "k2"}
BlankLine == <<"">>

\* Model responses to the expansion prompt.
Responses ==
    { <<>>,                                  \* ""
      <<BlankLine>>,                         \* whitespace only
      <<<<"k1", "k2">>>>,                    \* "k1, k2"
      <<<<"k1">>, <<"", "">>>> }             \* "k1\n,"

\* The value of an expression: a str, or the coroutine object that calling
\* an "async def" without await gives.
Str(text) == [type |-> "str", text |-> text]
Coroutine == [type |-> "coroutine"]
NoValue == [type |-> "none"]

\* self.llm.chat(prompt), not awaited: the coroutine object is created and
\* the body of chat() does not run (no acquire, no request, no history).
ChatNotAwaited(prompt) == Coroutine

\* text.strip(): leading and trailing blank lines go
RECURSIVE StripLeft(_)
StripLeft(text) ==
    IF text # <<>> /\ Head(text) = BlankLine THEN StripLeft(Tail(text)) ELSE text

RECURSIVE StripRight(_)
StripRight(text) ==
    IF text # <<>> /\ text[Len(text)] = BlankLine
    THEN StripRight(SubSeq(text, 1, Len(text) - 1)) ELSE text

Strip(text) == StripRight(StripLeft(text))

\* [word.strip() for word in line.split(",") if word.strip()]
NonEmptyFields(line) == LET Filled(w) == w # "" IN SelectSeq(line, Filled)

Raised(name) == [kind |-> "raised", error |-> name]

\* extract(), after the chat call:
\*   keywords_line = result.strip().splitlines()[-1]
\*   self.search_queries = [word.strip() for ... if word.strip()]
ExtractOutcome(result) ==
    IF result.type # "str" THEN Raised("AttributeError")
    ELSE LET lines == Strip(result.text) IN
         IF lines = <<>> THEN Raised("IndexError")
         ELSE [kind |-> "returned", list |-> NonEmptyFields(lines[Len(lines)])]

\* is_relevant(), after the chat call: return "yes" in answer.lower()
IsRelevantOutcome(answer) ==
    IF answer.type # "str" THEN Raised("AttributeError")
    ELSE [kind |-> "returned", value |-> answer.text = "yes"]

\* What the backends hold in store for one run(): the model's response to
\* the expansion prompt, the URLs the search would aggregate, and for each
\* URL whether navigating to it succeeds, the body text its page would give
\* ("" when navigation fails or the page has no text) and the model's
\* verdict on it ("fail": the request fails)
Verdicts == {"yes", "no", "fail"}
RunUrls == {"u1", "u2"}
Envs ==
    {env \in [expansion : Responses,
              results : {r \in SeqsUpTo(RunUrls, MaxRunResults) :
                            \A i, j \in 1..Len(r) : r[i] = r[j] => i = j},
              nav_ok : [RunUrls -> BOOLEAN],
              body : [RunUrls -> {"", "A"}],
              title : [RunUrls -> {"T1"}],
              verdict : [RunUrls -> Verdicts]] :
        \A u \in RunUrls : ~env.nav_ok[u] => env.body[u] = ""}

NoEnv == [expansion |-> <<>>, results |-> <<>>,
          nav_ok |-> [u \in RunUrls |-> TRUE],
          body |-> [u \in RunUrls |-> ""], title |-> [u \in RunUrls |-> "T1"],
          verdict |-> [u \in RunUrls |-> "no"]]

NoCheck == [query |-> "a", content |-> ""]

\* ResearchAgent(); nothing in progress
AgentNew ==
    /\ e_pc = "idle"
    /\ e_result = NoValue
    /\ search_queries = <<>>
    /\ e_ret = NoReturn
    /\ c_pc = "idle"
    /\ c_answer = NoValue
    /\ c_ret = NoReturn
    /\ c_args = NoCheck
    /\ c_prev = [args |-> NoCheck, ret |-> NoReturn]
    /\ c_calls = 0
    /\ r_pc = "idle"
    /\ r_stages = <<>>
    /\ r_env = NoEnv
    /\ r_ret = NoReturn

\* extract(query) up to "result = self.llm.chat(prompt)"
ExtractEnter(query) ==
    /\ e_pc = "idle"
    /\ e_pc' = "called"
    /\ e_result' = ChatNotAwaited(query)
    /\ e_ret' = NoReturn
    /\ UNCHANGED search_queries

\* extract(query) called on its own
ExtractCall(query) ==
    /\ r_pc = "idle"
    /\ ExtractEnter(query)
    /\ UNCHANGED <<c_pc, c_answer, c_ret, c_args, c_prev, c_calls, r_pc,
                   r_stages, r_env, r_ret>>
    /\ UNCHANGED <<limiterVars, clientVars, scraperVars, searchVars>>

\* run(query): keywords = await self.extractor.extract(query)
RunCall(query, env) ==
    /\ r_pc = "idle"
    /\ ExtractEnter(query)
    /\ r_pc' = "Expanding"
    /\ r_stages' = <<"Expanding">>
    /\ r_env' = env
    /\ r_ret' = NoReturn
    /\ UNCHANGED <<c_pc, c_answer, c_ret, c_args, c_prev, c_calls>>
    /\ UNCHANGED <<limiterVars, clientVars, scraperVars, searchVars>>

\* The rest of extract().  What it raises leaves run(), which has no
\* handler, as well.  "result" is always the coroutine object, so extract()
\* always raises and run() never gets past its first statement: the search,
\* the fetch-and-filter loop and the formatting of run() are never reached.
ExtractFinish ==
    /\ e_pc = "called"
    /\ LET out == ExtractOutcome(e_result) IN
        /\ e_ret' = out
        /\ search_queries' = IF out.kind = "returned" THEN out.list
                             ELSE search_queries
        /\ IF r_pc = "Expanding"
           THEN /\ r_pc' = IF out.kind = "returned" THEN "Aggregating" ELSE "idle"
                /\ r_stages' = IF out.kind = "returned"
                               THEN Append(r_stages, "Aggregating") ELSE r_stages
                /\ r_ret' = IF out.kind = "returned" THEN r_ret ELSE out
           ELSE UNCHANGED <<r_pc, r_stages, r_ret>>
    /\ e_pc' = "idle"
    /\ e_result' = NoValue
    /\ UNCHANGED <<c_pc, c_answer, c_ret, c_args, c_prev, c_calls, r_env>>
    /\ UNCHANGED <<limiterVars, clientVars, scraperVars, searchVars>>

\* is_relevant(query, content) up to "answer = self.llm.chat(prompt)"
IsRelevantCall(query, content) ==
    /\ c_pc = "idle"
    /\ c_calls < MaxChecks
    /\ c_calls' = c_calls + 1
    /\ c_pc' = "called"
    /\ c_answer' = ChatNotAwaited(query)
    /\ c_prev' = [args |-> c_args, ret |-> c_ret]
    /\ c_args' = [query |-> query, content |-> content]
    /\ c_ret' = NoReturn
    /\ UNCHANGED <<e_pc, e_result, search_queries, e_ret, r_pc, r_stages, r_env,
                   r_ret>>
    /\ UNCHANGED <<limiterVars, clientVars, scraperVars, searchVars>>

\* The rest of is_relevant().
IsRelevantFinish ==
    /\ c_pc = "called"
    /\ c_ret' = IsRelevantOutcome(c_answer)
    /\ c_pc' = "idle"
    /\ c_answer' = NoValue
    /\ UNCHANGED <<c_args, c_prev, c_calls>>
    /\ UNCHANGED <<e_pc, e_result, search_queries, e_ret, r_pc, r_stages, r_env,
                   r_ret>>
    /\ UNCHANGED <<limiterVars, clientVars, scraperVars, searchVars>>

AgentNext ==
    \/ \E q \in Contents : ExtractCall(q)
    \/ \E q \in Contents, env \in Envs : RunCall(q, env)
    \/ ExtractFinish

\* RelevanceChecker on its own
CheckerNext ==
    \/ \E q \in Contents, c \in BodyTexts : IsRelevantCall(q, c)
    \/ IsRelevantFinish

\* ============================================================ Specifications
LimiterInit ==
    /\ \E mc \in 1..MaxCallsArg, ps \in 1..MaxPeriodArg : LimiterNew(mc, ps)
    /\ ClientNew
    /\ ScraperNew
    /\ SearchNew
    /\ AgentNew

SpecLimiter == LimiterInit /\ [][LimiterNext]_vars

\* Time advances, and the event loop runs every task that is ready: one
\* whose turn at the lock has come, whose sleep is over, or that is about to
\* append.
SpecLimiterFair ==
    /\ LimiterInit
    /\ [][LimiterFairNext]_vars
    /\ WF_vars(Tick \/ TickRebase)
    /\ \A t \in Callers : WF_vars(AcquireCheck(t))
    /\ \A t \in Callers : WF_vars(AcquireWake(t))
    /\ \A t \in Callers : WF_vars(AcquireRecord(t))

\* LLMClient(): its limiter is AsyncRateLimiter(max_calls=30, period_seconds=60)
ClientInit ==
    /\ LimiterNew(RATE_MAX_CALLS, RATE_PERIOD)
    /\ ClientNew
    /\ ScraperNew
    /\ SearchNew
    /\ AgentNew

SpecClient == ClientInit /\ [][ClientNext]_vars

ScraperInit ==
    /\ LimiterNew(RATE_MAX_CALLS, RATE_PERIOD)
    /\ ClientNew
    /\ ScraperNew
    /\ SearchNew
    /\ AgentNew

SpecScraper == ScraperInit /\ [][ScraperNext]_vars

SearchInit ==
    /\ LimiterNew(RATE_MAX_CALLS, RATE_PERIOD)
    /\ ClientNew
    /\ ScraperNew
    /\ SearchNew
    /\ AgentNew

SpecSearch == SearchInit /\ [][SearchNext]_vars

AgentInit ==
    /\ LimiterNew(RATE_MAX_CALLS, RATE_PERIOD)
    /\ ClientNew
    /\ ScraperNew
    /\ SearchNew
    /\ AgentNew

SpecAgent == AgentInit /\ [][AgentNext]_vars

CheckerInit ==
    /\ LimiterNew(RATE_MAX_CALLS, RATE_PERIOD)
    /\ ClientNew
    /\ ScraperNew
    /\ SearchNew
    /\ AgentNew

SpecChecker == CheckerInit /\ [][CheckerNext]_vars

\* ============================================================ Claims
\* ------------------------------------------------------------------ C1
\* Number of recorded timestamps t with T - period < t <= T.
InWindow(T) ==
    Cardinality({i \in 1..Len(recorded) :
                    T - period < recorded[i] /\ recorded[i] <= T})

\* C1: at every time T, at most max_calls timestamps recorded by acquire()
\* lie in the window (T - period, T], whatever the interleaving of callers.
C1_WindowBound == \A T \in 0..(MaxTime + MaxPeriodArg) : InWindow(T) <= max_calls

\* A caller found the window full, slept, and recorded its timestamp while
\* other timestamps had been recorded before it.
C1_Witness ==
    /\ Len(recorded) >= max_calls + 1
    /\ \E t \in Callers : apc[t] = "idle" /\ wakeAt[t] > 0
    /\ \E t \in Callers : apc[t] = "lock"


\* ------------------------------------------------------------------ C2
\* C2: after any sequence of add_to_context, set_system_message,
\* clear_context and chat calls, the conversation history holds at most
\* max_context_length messages.
C2_HistoryBounded == Len(conversation_history) <= max_context_length

\* ------------------------------------------------------------------ C3
\* C3: once set_system_message has been called (and the context not cleared
\* since), the system message it set is the first message of the history,
\* also after additions that evict.
C3_SystemFirst ==
    sysMsg # "none" =>
        /\ conversation_history # <<>>
        /\ conversation_history[1] = Msg("system", sysMsg)

\* ------------------------------------------------------------------ C4
\* C4: every scrape_website call whose navigation fails returns (does not
\* raise) content "" and a title 'Scraping Error: <error category>',
\* whatever earlier calls on the same scraper returned.
C4_NavFailureEmpty ==
    (s_pc = "idle" /\ s_nav = "failed") =>
        /\ s_ret.kind = "returned"
        /\ s_ret.content = ""
        /\ s_ret.title.error

\* ------------------------------------------------------------------ C6
NoDuplicates(r) == \A i, j \in 1..Len(r) : r[i] = r[j] => i = j

IsPrefix(a, b) == Len(a) <= Len(b) /\ SubSeq(b, 1, Len(a)) = a

SearchReturned == q_pc = "idle" /\ q_ret.kind = "returned"

\* C6: the list search() returns has no duplicate URL, has at most
\* MAX_TOTAL_UNIQUE_RESULTS entries and holds the URLs in the order the
\* backend first returned them.
C6_UniqueCappedOrdered ==
    SearchReturned =>
        /\ NoDuplicates(q_ret.list)
        /\ Len(q_ret.list) <= MAX_TOTAL_UNIQUE_RESULTS
        /\ q_ret.list = Take(q_firstSeen, MAX_TOTAL_UNIQUE_RESULTS)

\* Three queries were issued, a URL came back more than once, and the
\* returned list holds two URLs.
C6_Witness ==
    /\ SearchReturned
    /\ q_issued = 3
    /\ q_dups > 0
    /\ Len(q_ret.list) = 2

\* ------------------------------------------------------------------ C7
\* C7: no backend search is issued once MAX_TOTAL_UNIQUE_RESULTS unique URLs
\* are collected, and the collection never grows beyond the cap.
C7_StopsAtCap ==
    /\ [](Len(unique_results) <= MAX_TOTAL_UNIQUE_RESULTS)
    /\ [][q_issued' > q_issued =>
             Len(unique_results) < MAX_TOTAL_UNIQUE_RESULTS]_vars

\* search() returned at the cap with queries of its list never issued.
C7_Witness ==
    /\ SearchReturned
    /\ Len(unique_results) = MAX_TOTAL_UNIQUE_RESULTS
    /\ q_issued < Len(q_list)

\* ------------------------------------------------------------------ C8
\* C8: a search() in which the backend failed for a query still returns;
\* the URLs collected before the failure are in the result, every query of
\* the list was issued unless the cap was reached, and the result holds the
\* URLs of all the queries that answered.
C8_FailureSkipped ==
    (SearchReturned /\ q_fails > 0) =>
        /\ IsPrefix(q_atFail, q_ret.list)
        /\ q_issued = Len(q_list)
           \/ Len(q_ret.list) >= MAX_TOTAL_UNIQUE_RESULTS
        /\ SeqToSet(q_ret.list) = SeqToSet(Take(q_firstSeen, MAX_TOTAL_UNIQUE_RESULTS))

\* The backend failed after a URL was collected, and a later query added
\* another URL.
C8_Witness ==
    /\ SearchReturned
    /\ q_fails > 0
    /\ q_atFail # <<>>
    /\ Len(q_ret.list) > Len(q_atFail)

\* ------------------------------------------------------------------ C5
RunFinished == r_pc = "idle" /\ r_ret.kind # "none"

\* The queries a response to the expansion prompt holds: the non-empty
\* fields of its last line, none when it has no line.
QueriesIn(text) ==
    LET lines == Strip(text) IN
    IF lines = <<>> THEN <<>> ELSE NonEmptyFields(lines[Len(lines)])

Record(env, u) == [title |-> env.title[u], url |-> [href |-> u]]

\* The records of the results with a non-empty body and the verdict "yes",
\* in aggregated order.
RECURSIVE RelevantRecords(_, _)
RelevantRecords(env, results) ==
    IF results = <<>> THEN <<>>
    ELSE (IF env.body[Head(results)] # "" /\ env.verdict[Head(results)] = "yes"
          THEN <<Record(env, Head(results))>> ELSE <<>>)
         \o RelevantRecords(env, Tail(results))

\* Some result with a non-empty body has its relevance request fail.
SomeCheckFails(env) ==
    \E i \in 1..Len(env.results) :
        env.body[env.results[i]] # "" /\ env.verdict[env.results[i]] = "fail"

\* C5: a run() in which the model call of one document's relevance check
\* fails still returns the serialized collection, that document counted as
\* not relevant and the remaining results processed.
C5_CheckFailureIsNotRelevant ==
    (RunFinished /\ QueriesIn(r_env.expansion) # <<>> /\ SomeCheckFails(r_env)) =>
        /\ r_ret.kind = "returned"
        /\ r_ret.records = RelevantRecords(r_env, r_env.results)

\* ------------------------------------------------------------------ C9
\* C9: the output of run() holds exactly the records of the aggregated
\* results whose fetched content is non-empty and whose relevance check
\* answered yes, in aggregated order.
C9_ExactlyRelevantRecorded ==
    (RunFinished /\ QueriesIn(r_env.expansion) # <<>> /\ ~SomeCheckFails(r_env)) =>
        /\ r_ret.kind = "returned"
        /\ r_ret.records = RelevantRecords(r_env, r_env.results)

\* ------------------------------------------------------------------ C10
\* C10: extract() returns a list, possibly empty, whatever the model
\* answers, and never raises; a run() whose expansion yields no query
\* returns an empty collection.
C10_ExtractNeverRaises ==
    /\ (e_pc = "idle" /\ e_ret.kind # "none") => e_ret.kind = "returned"
    /\ (RunFinished /\ QueriesIn(r_env.expansion) = <<>>) =>
            /\ r_ret.kind = "returned"
            /\ r_ret.records = <<>>

\* ------------------------------------------------------------------ C11
\* C11: a finished extract() has sent the model one request, holding the
\* expansion prompt alone, and has left the conversation history as it was.
C11_ExtractSendsPromptOnly ==
    (e_pc = "idle" /\ e_ret.kind # "none") =>
        /\ requests > 0
        /\ conversation_history = <<>>

\* ------------------------------------------------------------------ C12
\* Two is_relevant() calls in succession with the same (query, content).
SameCheckTwice ==
    /\ c_pc = "idle"
    /\ c_ret.kind # "none"
    /\ c_prev.ret.kind # "none"
    /\ c_prev.args = c_args

\* C12: two is_relevant() calls in succession with the same (query, content)
\* on the same client both return a boolean, and the same one.
C12_SameVerdictTwice ==
    SameCheckTwice =>
        /\ c_ret.kind = "returned"
        /\ c_prev.ret.kind = "returned"
        /\ c_ret.value = c_prev.ret.value

\* ------------------------------------------------------------------ C13
\* C13: with time advancing and fair scheduling, every caller that invokes
\* acquire() eventually returns, and it returns by appending its timestamp.
C13_AcquireReturns ==
    /\ \A t \in Callers : (apc[t] # "idle") ~> (apc[t] = "idle")
    /\ [][\A t \in Callers :
            (apc[t] # "idle" /\ apc'[t] = "idle") =>
                /\ Len(recorded') = Len(recorded) + 1
                /\ calls' = Append(calls, clock)]_vars

\* A caller that found the window full and slept has returned, while two
\* more callers wait, one of them asleep with the window full.
C13_Witness ==
    /\ \E t \in Callers : apc[t] = "idle" /\ wakeAt[t] > 0
    /\ \E t \in Callers : apc[t] = "sleep" /\ Len(calls) >= max_calls
    /\ \E t \in Callers : apc[t] = "lock"

\* ------------------------------------------------------------------ C16
\* A caller between its purge of the window and its append.
InCheckAndRecord(t) == apc[t] \in {"sleep", "append"}

\* C16: while a caller is between its purge and its append, asleep or not,
\* no other caller is, and no step of another caller reads or changes
\* self.calls: another caller can only join the queue of the lock.
C16_CheckAndRecordAtomic ==
    /\ [](\A t, u \in Callers :
            (InCheckAndRecord(t) /\ InCheckAndRecord(u)) => t = u)
    /\ [][\A t, u \in Callers :
            (InCheckAndRecord(t) /\ u # t) =>
                /\ apc'[u] = apc[u] \/ (apc[u] = "idle" /\ apc'[u] = "lock")
                /\ apc'[u] # apc[u] => calls' = calls]_vars

\* A caller sleeps with the window full while two other callers wait for
\* the lock.
C16_Witness ==
    \E t \in Callers :
        /\ apc[t] = "sleep"
        /\ clock < wakeAt[t]
        /\ Len(lock) = 3

\* ------------------------------------------------------------------ C14
\* The most recent max_context_length messages of h.
Kept(h) ==
    IF Len(h) > max_context_length
    THEN SubSeq(h, Len(h) - max_context_length + 1, Len(h)) ELSE h

\* C14: the request of chat() holds the history followed by the prompt as a
\* user message when use_context is set and the history is not empty, and
\* the prompt alone otherwise; a chat() with add_to_history that returns has
\* appended the prompt (user) and then the response (assistant) to the
\* history, which keeps its most recent max_context_length messages.
C14_MessagesAndHistory ==
    /\ [](\A t \in Callers : cpc[t] = "request" =>
            messages =
                (IF cargs[t].use_context /\ conversation_history # <<>>
                 THEN conversation_history
                 ELSE <<>>) \o <<[role |-> "user", content |-> cargs[t].prompt]>>)
    /\ [][\A t \in Callers :
            (cpc[t] = "request" /\ chat_ret'[t].kind = "returned"
                /\ cargs[t].add_to_history) =>
                conversation_history' =
                    Kept(conversation_history
                         \o <<[role |-> "user", content |-> cargs[t].prompt],
                              [role |-> "assistant",
                               content |-> chat_ret'[t].value]>>)]_vars

\* The second chat() of a client, with use_context and add_to_history, has
\* sent the turns of the first one followed by its prompt.
C14_Witness ==
    /\ requests = 2
    /\ cpc["t1"] = "request"
    /\ cargs["t1"].use_context /\ cargs["t1"].add_to_history
    /\ Len(messages) = 3
    /\ messages[1].role = "user" /\ messages[2].role = "assistant"

\* ------------------------------------------------------------------ C15
\* C15: at every point the number of backend requests made is at most the
\* number of timestamps acquire() has recorded.
C15_RequestsAfterAcquire == requests <= Len(recorded)

\* Two requests were made, the second after acquire() had slept.
C15_Witness ==
    /\ requests = 2
    /\ Len(recorded) = 2
    /\ wakeAt["t1"] > 0

\* ------------------------------------------------------------------ C19
\* Calls of chat() that are past acquire() and have not made their request.
AboutToRequest == {t \in Callers : cpc[t] = "acquire" /\ apc[t] = "idle"}

\* C19: a chat() whose request fails raises in the step the failure comes
\* back, having made one request; the call has not changed the history at
\* any of its steps, and the timestamp of its acquire() stays in the window
\* and in the record.
C19_FailureLeavesHistory ==
    /\ [](requests + Cardinality(AboutToRequest) = Len(recorded))
    /\ [][\A t \in Callers :
            (cpc[t] = "request" /\ chat_ret'[t].kind = "raised") =>
                /\ cpc'[t] = "idle"
                /\ requests' = requests
                /\ calls' = calls /\ recorded' = recorded]_vars
    /\ [][\A t \in Callers :
            (cpc'[t] # cpc[t] /\ chat_ret'[t].kind # "returned") =>
                conversation_history' = conversation_history]_vars

\* A chat() called with add_to_history on a non-empty history has raised.
C19_Witness ==
    /\ chat_ret["t1"].kind = "raised"
    /\ cpc["t1"] = "idle"
    /\ cargs["t1"].add_to_history
    /\ conversation_history # <<>>
    /\ requests = 1 /\ Len(recorded) = 1

\* ------------------------------------------------------------------ C17
\* C17: a run() that ends has been through Expanding, Aggregating,
\* FetchingAndFiltering, Formatting and Done, in that order and each once,
\* also when the expansion yields no query, the aggregation no result, or a
\* fetch fails; it ends by returning.
C17_StagesInOrder ==
    RunFinished =>
        /\ r_ret.kind = "returned"
        /\ r_stages = <<"Expanding", "Aggregating", "FetchingAndFiltering",
                        "Formatting", "Done">>

SomeNavigationFails(env) ==
    \E i \in 1..Len(env.results) : ~env.nav_ok[env.results[i]]

====
